---- MODULE Spec2Model ----
(***************************************************************************)
(* The register machine of src/vm.rs: four u8 registers, a stack pointer,  *)
(* a condition flag, the last-fetched instruction, a 256-byte memory used  *)
(* as a downward-growing stack, and the instruction stream, a vector that  *)
(* execute() consumes from its tail.  One step of the model is one         *)
(* iteration of the loop of execute(), the handler it calls included.      *)
(***************************************************************************)
EXTENDS Integers, Sequences, FiniteSets, TLC

VARIABLES A, B, X, Y, SP, CC, PC, program, mem, state, before, access, shadow,
          given

vars == <<A, B, X, Y, SP, CC, PC, program, mem, state, before, access, shadow,
          given>>

(***************************************************************************)
(* Program constants.                                                      *)
(***************************************************************************)
\* mem: [u8; 256]
MemSize == 256
\* SP: 255 at construction, the index of the empty stack
StackTop == 255
\* the largest u8, the literal of the overflow guard of handle_add
U8Max == 255

(***************************************************************************)
(* Bounds of the model.                                                    *)
(***************************************************************************)
\* longest stream of arbitrary elements
MaxLen == 3
\* most instructions of a well-formed stream
MaxInstrs == 3
\* most instructions executed after the stack has been filled
MaxDeep == 3
\* most pushes of a stream of pushes followed by as many pops
MaxPushes == 2
\* register pushes that fill the stack before those instructions
FillPushes == 254

(***************************************************************************)
(* enum Instr, enum Flag and the stream elements Either<u8, Instr>.        *)
(***************************************************************************)
AddInstrs == {"ADDA", "ADDB", "ADDX", "ADDY"}
SubInstrs == {"SUBA", "SUBB", "SUBX", "SUBY"}
PushInstrs == {"PUSHi", "PUSHA", "PUSHB", "PUSHX", "PUSHY"}
PopInstrs == {"POPA", "POPB", "POPX", "POPY"}
OtherInstrs == {"BRZ", "BRN", "BRO", "SETA", "SETB", "SETX", "SETY"}
Instr == AddInstrs \cup SubInstrs \cup PushInstrs \cup PopInstrs
            \cup OtherInstrs \cup {"HALT"}

Flag == {"OVERFLOW", "ZERO", "NEGATIVE", "CARRY", "DEFAULT"}

Left(x) == [tag |-> "Left", val |-> x]
Right(i) == [tag |-> "Right", val |-> i]

\* the operand bytes the streams of the model are built from
Operands == {0, 1, 127, 255}

\* the elements of the enumerated streams: of the seven opcodes that take the
\* arm _ => break, one branch and one set
Elements ==
    {Left(x) : x \in Operands}
        \cup {Right(i) : i \in Instr \ {"BRN", "BRO", "SETB", "SETX", "SETY"}}

(***************************************************************************)
(* The streams the machine is constructed with.                            *)
(***************************************************************************)
\* the concatenation of the first n sequences of ss
RECURSIVE Flatten(_, _)
Flatten(ss, n) == IF n = 0 THEN <<>> ELSE Flatten(ss, n - 1) \o ss[n]

\* every stream of at most MaxLen elements, well formed or not
RawProgram(p) ==
    \E n \in 0..MaxLen : \E f \in [1..n -> Elements] : p = SubSeq(f, 1, n)

\* each opcode without a handler, after any one element
OtherProgram(p) ==
    \E i \in OtherInstrs, e \in Elements : p = <<e, Right(i)>>

\* one instruction as it lies in the stream: its operand, then its opcode
Arith == {<<Left(x), Right(i)>> : x \in Operands, i \in {"ADDA", "SUBA", "ADDX"}}
Stack == {<<Left(1), Right("PUSHi")>>, <<Left(255), Right("PUSHi")>>,
          <<Right("PUSHA")>>, <<Right("PUSHX")>>, <<Right("POPA")>>, <<Right("POPX")>>}

\* well-formed streams of at most MaxInstrs instructions
InstrProgram(p) ==
    \E n \in 0..MaxInstrs : \E f \in [1..n -> Arith \cup Stack] : p = Flatten(f, n)

\* executed first: ADDA 127, then FillPushes times PUSHA
FillProgram == [i \in 1..FillPushes |-> Right("PUSHA")] \o <<Left(127), Right("ADDA")>>

DeepInstrs == {<<Left(1), Right("PUSHi")>>, <<Right("PUSHA")>>, <<Right("PUSHX")>>,
               <<Right("POPA")>>, <<Right("POPX")>>}

\* streams that fill the stack and then execute at most MaxDeep instructions
DeepProgram(p) ==
    \E n \in 0..MaxDeep : \E f \in [1..n -> DeepInstrs] : p = Flatten(f, n) \o FillProgram

\* the streams of the test subtracting_from_registers
TestProgram(p) ==
    \E ops \in {<<"SUBA", "ADDA">>, <<"SUBB", "ADDB">>, <<"SUBX", "ADDX">>,
                 <<"SUBY", "ADDY">>} :
        p = <<Left(10), Right(ops[1]), Left(42), Right(ops[2])>>

\* k immediate pushes followed by k pops, as they lie in the stream
PushesThenPops(vs, rs, k) ==
    [i \in 1..k |-> Right(rs[i])]
        \o [j \in 1..(2 * k) |-> IF j % 2 = 1 THEN Left(vs[(j + 1) \div 2])
                                  ELSE Right("PUSHi")]

\* streams of at most MaxPushes pushes followed by as many pops
LifoProgram(p) ==
    \E k \in 1..MaxPushes :
        \E vs \in [1..k -> Operands], rs \in [1..k -> PopInstrs] :
            p = PushesThenPops(vs, rs, k)

\* FillPushes + 1 pushes of the values 1, 2, ... and then as many POPA
FullLifoProgram ==
    LET n == FillPushes + 1
    IN  PushesThenPops([i \in 1..n |-> (n - i + 1) % 256],
                       [i \in 1..n |-> "POPA"], n)

(***************************************************************************)
(* Observation of the run.  before: the registers, SP, CC and PC as they   *)
(* were when the last opcode was fetched, with the operand its handler     *)
(* took (arg), the tag of the element it took it from (tag, "none" when it *)
(* took no element) and the number of raw operands the loop has discarded  *)
(* since (strays).  access: the memory indices the last push or pop used.  *)
(* shadow: the values pushed and not yet popped, oldest first.  given: the *)
(* vector that was passed to new.                                          *)
(***************************************************************************)
Snapshot(arg) ==
    [A |-> A, B |-> B, X |-> X, Y |-> Y, SP |-> SP, PC |-> PC, arg |-> arg,
     CC |-> CC, tag |-> "none", strays |-> 0]

\* the snapshot of a handler that takes the element e as its operand
SnapshotWith(e) == [Snapshot(IF e.tag = "Left" THEN e.val ELSE 0) EXCEPT !.tag = e.tag]

(***************************************************************************)
(* VM::new                                                                 *)
(***************************************************************************)
\* VM::new storing the vector back to front, so that execute() would start
\* at its first element
Init_reversed ==
    /\ \/ RawProgram(given)
       \/ OtherProgram(given)
       \/ InstrProgram(given)
       \/ DeepProgram(given)
       \/ TestProgram(given)
       \/ LifoProgram(given)
       \/ given = FullLifoProgram
    /\ A = 0
    /\ B = 0
    /\ X = 0
    /\ Y = 0
    /\ SP = StackTop
    /\ CC = "DEFAULT"
    /\ PC = "None"
    /\ program = [i \in 1..Len(given) |-> given[Len(given) + 1 - i]]
    /\ mem = [i \in 0..(MemSize - 1) |-> 0]
    /\ state = "RUNNING"
    /\ before = [A |-> 0, B |-> 0, X |-> 0, Y |-> 0, SP |-> StackTop,
                 PC |-> "None", arg |-> 0, CC |-> "DEFAULT", tag |-> "none",
                 strays |-> 0]
    /\ access = {}
    /\ shadow = <<>>

Init ==
    /\ \/ RawProgram(given)
       \/ OtherProgram(given)
       \/ InstrProgram(given)
       \/ DeepProgram(given)
       \/ TestProgram(given)
       \/ LifoProgram(given)
       \/ given = FullLifoProgram
    /\ A = 0
    /\ B = 0
    /\ X = 0
    /\ Y = 0
    /\ SP = StackTop
    /\ CC = "DEFAULT"
    /\ PC = "None"
    /\ program = given
    /\ mem = [i \in 0..(MemSize - 1) |-> 0]
    /\ state = "RUNNING"
    /\ before = [A |-> 0, B |-> 0, X |-> 0, Y |-> 0, SP |-> StackTop,
                 PC |-> "None", arg |-> 0, CC |-> "DEFAULT", tag |-> "none",
                 strays |-> 0]
    /\ access = {}
    /\ shadow = <<>>

(***************************************************************************)
(* Helpers of the handlers.                                                *)
(***************************************************************************)
\* a fetch that reads the first element of the vector
Top_first(s) == s[1]

\* Vec::pop: the element it returns and the vector it leaves
Top(s) == s[Len(s)]
Rest(s) == SubSeq(s, 1, Len(s) - 1)

\* the operand match with another fallback: Left(x) => x, _ => 1
ArgOf_one(e) == IF e.tag = "Left" THEN e.val ELSE 1

\* the operand match of the handlers: Left(x) => x, _ => 0
ArgOf(e) == IF e.tag = "Left" THEN e.val ELSE 0

\* the register an opcode names, as the matches on self.PC find it
TargetOf(instr) ==
    CASE instr \in {"ADDA", "SUBA", "PUSHA", "POPA"} -> "A"
      [] instr \in {"ADDB", "SUBB", "PUSHB", "POPB"} -> "B"
      [] instr \in {"ADDX", "SUBX", "PUSHX", "POPX"} -> "X"
      [] instr \in {"ADDY", "SUBY", "PUSHY", "POPY"} -> "Y"
      [] OTHER -> "none"

RegValue(r) ==
    CASE r = "A" -> A
      [] r = "B" -> B
      [] r = "X" -> X
      [] r = "Y" -> Y
      [] OTHER -> 0

\* the write-back with the arm of B storing to A
WriteBack_shared(r, v) ==
    /\ A' = IF r \in {"A", "B"} THEN v ELSE A
    /\ B' = B
    /\ X' = IF r = "X" THEN v ELSE X
    /\ Y' = IF r = "Y" THEN v ELSE Y

\* the write-back matches: the named register takes v, the others stay
WriteBack(r, v) ==
    /\ A' = IF r = "A" THEN v ELSE A
    /\ B' = IF r = "B" THEN v ELSE B
    /\ X' = IF r = "X" THEN v ELSE X
    /\ Y' = IF r = "Y" THEN v ELSE Y

\* an index the array mem has
InBounds(i) == i \in 0..(MemSize - 1)

\* handle_add without its overflow guard: the sum wraps
NextAdd_wrapping(reg_value, arg) ==
    IF (reg_value + arg) % 256 = 0
    THEN [CC |-> "ZERO", value |-> 0]
    ELSE [CC |-> "DEFAULT", value |-> (arg + reg_value) % 256]

\* handle_add with the guard of a signed byte: 127 - reg_value < arg
NextAdd_signed(reg_value, arg) ==
    IF 127 - reg_value < arg
    THEN [CC |-> "OVERFLOW", value |-> reg_value]
    ELSE IF (reg_value + arg) % 256 = 0
         THEN [CC |-> "ZERO", value |-> 0]
         ELSE [CC |-> "DEFAULT", value |-> (arg + reg_value) % 256]

\* next_reg_value and the flag of handle_add, in u8 arithmetic
NextAdd(reg_value, arg) ==
    IF U8Max - reg_value < arg
    THEN [CC |-> "OVERFLOW", value |-> reg_value]
    ELSE IF (reg_value + arg) % 256 = 0
         THEN [CC |-> "ZERO", value |-> 0]
         ELSE [CC |-> "DEFAULT", value |-> (arg + reg_value) % 256]

\* handle_sub flagging a result below zero as NEGATIVE
NextSub_negative(reg_value, arg) ==
    IF reg_value < arg
    THEN [CC |-> "NEGATIVE", value |-> reg_value]
    ELSE IF (reg_value - arg) % 256 = 0
         THEN [CC |-> "ZERO", value |-> 0]
         ELSE [CC |-> "DEFAULT", value |-> (reg_value - arg) % 256]

\* handle_sub with the guard reg_value <= arg
NextSub_inclusive(reg_value, arg) ==
    IF reg_value <= arg
    THEN [CC |-> "OVERFLOW", value |-> reg_value]
    ELSE IF (reg_value - arg) % 256 = 0
         THEN [CC |-> "ZERO", value |-> 0]
         ELSE [CC |-> "DEFAULT", value |-> (reg_value - arg) % 256]

\* next_reg_value and the flag of handle_sub, in u8 arithmetic
NextSub(reg_value, arg) ==
    IF reg_value < arg
    THEN [CC |-> "OVERFLOW", value |-> reg_value]
    ELSE IF (reg_value - arg) % 256 = 0
         THEN [CC |-> "ZERO", value |-> 0]
         ELSE [CC |-> "DEFAULT", value |-> (reg_value - arg) % 256]

\* handle_push with the guard SP >= 0
PushHasRoom_always(sp) == sp >= 0

\* the guard of handle_push: there is room below the stack pointer
PushHasRoom(sp) == sp > 0

\* handle_push storing after the decrement: self.mem[self.SP - 1]
PushIndex_below(sp) == sp - 1

\* the cell handle_push stores to: self.mem[self.SP]
PushIndex(sp) == sp

\* pop reading before the increment: self.mem[self.SP]
PopIndex_stale(sp) == sp

\* the cell pop reads: self.mem[self.SP + 1]
PopIndex(sp) == sp + 1

\* pop with the guard SP == 256
StackEmpty_late(sp) == sp = MemSize

\* the guard of pop: the stack is empty
StackEmpty(sp) == sp = StackTop

\* Option::unwrap on None, or an index outside the array: the thread panics
Panic == state' = "PANICKED"

(***************************************************************************)
(* VM::execute, one loop iteration per action.                             *)
(***************************************************************************)
Fetching == state = "RUNNING" /\ program # <<>>

\* Some(Right(ADDr)) => handle_add()
ExecAdd ==
    /\ UNCHANGED given
    /\ Fetching
    /\ Top(program).tag = "Right"
    /\ Top(program).val \in AddInstrs
    /\ LET instr == Top(program).val
           rest == Rest(program)
       IN  /\ PC' = instr
           /\ IF rest = <<>>
              THEN /\ Panic
                   /\ program' = rest
                   /\ before' = Snapshot(0)
                   /\ UNCHANGED <<A, B, X, Y, SP, CC, mem, access, shadow>>
              ELSE LET arg == ArgOf(Top(rest))
                       r == TargetOf(instr)
                       next == NextAdd(RegValue(r), arg)
                   IN  /\ program' = Rest(rest)
                       /\ before' = SnapshotWith(Top(rest))
                       /\ CC' = next.CC
                       /\ WriteBack(r, next.value)
                       /\ UNCHANGED <<SP, mem, state, access, shadow>>

\* Some(Right(SUBr)) => handle_sub()
ExecSub ==
    /\ UNCHANGED given
    /\ Fetching
    /\ Top(program).tag = "Right"
    /\ Top(program).val \in SubInstrs
    /\ LET instr == Top(program).val
           rest == Rest(program)
       IN  /\ PC' = instr
           /\ IF rest = <<>>
              THEN /\ Panic
                   /\ program' = rest
                   /\ before' = Snapshot(0)
                   /\ UNCHANGED <<A, B, X, Y, SP, CC, mem, access, shadow>>
              ELSE LET arg == ArgOf(Top(rest))
                       r == TargetOf(instr)
                       next == NextSub(RegValue(r), arg)
                   IN  /\ program' = Rest(rest)
                       /\ before' = SnapshotWith(Top(rest))
                       /\ CC' = next.CC
                       /\ WriteBack(r, next.value)
                       /\ UNCHANGED <<SP, mem, state, access, shadow>>

\* the body of handle_push once the value to push is known
Store(arg) ==
    IF PushHasRoom(SP)
    THEN /\ access' = {PushIndex(SP)}
         /\ IF InBounds(PushIndex(SP))
            THEN /\ mem' = [mem EXCEPT ![PushIndex(SP)] = arg]
                 /\ SP' = SP - 1
                 /\ shadow' = Append(shadow, arg)
                 /\ UNCHANGED state
            ELSE /\ Panic
                 /\ UNCHANGED <<mem, SP, shadow>>
    ELSE UNCHANGED <<mem, SP, state, access, shadow>>

\* Some(Right(PUSHi | PUSHr)) => handle_push()
ExecPush ==
    /\ UNCHANGED given
    /\ Fetching
    /\ Top(program).tag = "Right"
    /\ Top(program).val \in PushInstrs
    /\ LET instr == Top(program).val
           rest == Rest(program)
       IN  /\ PC' = instr
           /\ UNCHANGED <<A, B, X, Y, CC>>
           /\ IF instr = "PUSHi"
              THEN IF rest = <<>>
                   THEN /\ Panic
                        /\ program' = rest
                        /\ before' = Snapshot(0)
                        /\ UNCHANGED <<SP, mem, access, shadow>>
                   ELSE /\ program' = Rest(rest)
                        /\ before' = SnapshotWith(Top(rest))
                        /\ Store(ArgOf(Top(rest)))
              ELSE /\ program' = rest
                   /\ before' = Snapshot(RegValue(TargetOf(instr)))
                   /\ Store(RegValue(TargetOf(instr)))

\* Some(Right(POPr)) => handle_pop(), with pop() inside
ExecPop ==
    /\ UNCHANGED given
    /\ Fetching
    /\ Top(program).tag = "Right"
    /\ Top(program).val \in PopInstrs
    /\ LET instr == Top(program).val
       IN  /\ PC' = instr
           /\ before' = Snapshot(0)
           /\ program' = Rest(program)
           /\ UNCHANGED <<CC, mem>>
           /\ IF StackEmpty(SP)
              THEN /\ WriteBack(TargetOf(instr), 0)
                   /\ UNCHANGED <<SP, state, access, shadow>>
              ELSE /\ access' = {PopIndex(SP)}
                   /\ IF InBounds(PopIndex(SP))
                      THEN /\ WriteBack(TargetOf(instr), mem[PopIndex(SP)])
                           /\ SP' = SP + 1
                           /\ shadow' = Rest(shadow)
                           /\ UNCHANGED state
                      ELSE /\ Panic
                           /\ UNCHANGED <<A, B, X, Y, SP, shadow>>

\* Some(Right(HALT)) => break
ExecHalt ==
    /\ UNCHANGED given
    /\ Fetching
    /\ Top(program) = Right("HALT")
    /\ PC' = "HALT"
    /\ before' = Snapshot(0)
    /\ program' = Rest(program)
    /\ state' = "HALTED"
    /\ UNCHANGED <<A, B, X, Y, SP, CC, mem, access, shadow>>

\* the opcodes no arm names skipped instead: Some(Right(_)) => ()
ExecOther_skipped ==
    /\ UNCHANGED given
    /\ Fetching
    /\ Top(program).tag = "Right"
    /\ Top(program).val \in OtherInstrs
    /\ PC' = Top(program).val
    /\ before' = Snapshot(0)
    /\ program' = Rest(program)
    /\ UNCHANGED <<A, B, X, Y, SP, CC, mem, state, access, shadow>>

\* Some(Right(_)) => break, for the opcodes no arm names
ExecOther ==
    /\ UNCHANGED given
    /\ Fetching
    /\ Top(program).tag = "Right"
    /\ Top(program).val \in OtherInstrs
    /\ PC' = Top(program).val
    /\ before' = Snapshot(0)
    /\ program' = Rest(program)
    /\ state' = "HALTED"
    /\ UNCHANGED <<A, B, X, Y, SP, CC, mem, access, shadow>>

\* None => { self.PC = None; break; }
Exhausted ==
    /\ UNCHANGED given
    /\ state = "RUNNING"
    /\ program = <<>>
    /\ PC' = "None"
    /\ state' = "HALTED"
    /\ UNCHANGED <<A, B, X, Y, SP, CC, program, mem, before, access, shadow>>

\* the raw operand arm clearing PC as the None arm does
Discard_clearing ==
    /\ UNCHANGED given
    /\ Fetching
    /\ Top(program).tag = "Left"
    /\ program' = Rest(program)
    /\ PC' = "None"
    /\ before' = [before EXCEPT !.strays = @ + 1]
    /\ UNCHANGED <<A, B, X, Y, SP, CC, mem, state, access, shadow>>

\* _ => (), a raw operand where an opcode is fetched
Discard ==
    /\ UNCHANGED given
    /\ Fetching
    /\ Top(program).tag = "Left"
    /\ program' = Rest(program)
    /\ before' = [before EXCEPT !.strays = @ + 1]
    /\ UNCHANGED <<A, B, X, Y, SP, CC, PC, mem, state, access, shadow>>

Next ==
    \/ ExecAdd
    \/ ExecSub
    \/ ExecPush
    \/ ExecPop
    \/ ExecHalt
    \/ ExecOther
    \/ Exhausted
    \/ Discard

Spec == Init /\ [][Next]_vars

\* execute() runs to its end once called: the loop is never suspended
FairSpec == Spec /\ WF_vars(Next)

TypeOK ==
    /\ A \in 0..U8Max
    /\ B \in 0..U8Max
    /\ X \in 0..U8Max
    /\ Y \in 0..U8Max
    /\ CC \in Flag
    /\ PC \in Instr \cup {"None"}
    /\ state \in {"RUNNING", "HALTED", "PANICKED"}
    /\ mem \in [0..(MemSize - 1) -> 0..U8Max]
    /\ program \in Seq({Left(x) : x \in 0..U8Max} \cup {Right(i) : i \in Instr})
    /\ shadow \in Seq(0..U8Max)
    /\ given \in Seq({Left(x) : x \in 0..U8Max} \cup {Right(i) : i \in Instr})

(***************************************************************************)
(* What the claims speak of.                                               *)
(***************************************************************************)
\* the names of the four registers
Regs == {"A", "B", "X", "Y"}

\* the opcode the next loop iteration dispatches, if it dispatches one
Fetched ==
    IF Fetching /\ Top(program).tag = "Right" THEN Top(program).val ELSE "None"

\* the handler of the fetched opcode finds an element to take as its operand
HasOperand == Len(program) >= 2

\* the operand value that handler decodes
Operand == ArgOf(program[Len(program) - 1])

\* the handler of the last fetched opcode, one of S, has returned
Executed(S) == state = "RUNNING" /\ PC \in S

(***************************************************************************)
(* C1.  As stated: whenever an ADDr has executed with 127 - reg < arg, CC  *)
(* is OVERFLOW and the register kept its value (127 + 1 stays 127).        *)
(***************************************************************************)
C1_AddRejectsAbove127 ==
    Executed(AddInstrs) =>
        LET r == TargetOf(PC)
            reg == before[r]
            arg == before.arg
        IN  (127 - reg < arg) => (CC = "OVERFLOW" /\ RegValue(r) = reg)

(***************************************************************************)
(* C2.  Whenever an ADDr has executed on register value reg with operand   *)
(* arg: if reg + arg > 255 then CC is OVERFLOW and the register is reg;    *)
(* else if reg + arg = 0 then CC is ZERO and the register is 0; else CC is *)
(* DEFAULT and the register is reg + arg.                                  *)
(***************************************************************************)
C2_AddResult ==
    Executed(AddInstrs) =>
        LET r == TargetOf(PC)
            reg == before[r]
            arg == before.arg
        IN  /\ reg \in 0..255
            /\ arg \in 0..255
            /\ IF reg + arg > 255
               THEN CC = "OVERFLOW" /\ RegValue(r) = reg
               ELSE IF reg + arg = 0
                    THEN CC = "ZERO" /\ RegValue(r) = 0
                    ELSE CC = "DEFAULT" /\ RegValue(r) = reg + arg

C2_Witness ==
    /\ Executed({"ADDA"})
    /\ before.A = 127
    /\ before.arg = 1
    /\ A = 128
    /\ CC = "DEFAULT"

(***************************************************************************)
(* C3.  Whenever a SUBr has executed on register value reg with operand    *)
(* arg: if reg < arg then CC is OVERFLOW and the register is reg; else if  *)
(* reg - arg = 0 then CC is ZERO and the register is 0; else CC is DEFAULT *)
(* and the register is reg - arg.                                          *)
(***************************************************************************)
C3_SubResult ==
    Executed(SubInstrs) =>
        LET r == TargetOf(PC)
            reg == before[r]
            arg == before.arg
        IN  IF reg < arg
            THEN CC = "OVERFLOW" /\ RegValue(r) = reg
            ELSE IF reg - arg = 0
                 THEN CC = "ZERO" /\ RegValue(r) = 0
                 ELSE CC = "DEFAULT" /\ RegValue(r) = reg - arg

C3_Witness ==
    /\ Executed({"SUBA"})
    /\ before.A = 1
    /\ before.arg = 127
    /\ A = 1
    /\ CC = "OVERFLOW"

(***************************************************************************)
(* C4.  No stream makes execute panic: the run is never in a panic state.  *)
(***************************************************************************)
C4_NoPanic == state # "PANICKED"

(***************************************************************************)
(* C5.  As stated: a POPr dispatched right after a PUSHr of the same       *)
(* register leaves r and SP as they were before the push, whatever SP was. *)
(***************************************************************************)
C5_RoundTrip ==
    [][\A r \in Regs :
          (/\ PC \in PushInstrs
           /\ TargetOf(PC) = r
           /\ Fetched \in PopInstrs
           /\ TargetOf(Fetched) = r)
          => (RegValue(r)' = before[r] /\ SP' = before.SP)]_vars

(***************************************************************************)
(* C5, amended.  A POPr dispatched right after a PUSHr of the same         *)
(* register that executed with SP > 0 leaves r and SP as they were before  *)
(* the push.                                                               *)
(***************************************************************************)
C5_RoundTripWithRoom ==
    [][\A r \in Regs :
          (/\ PC \in PushInstrs
           /\ TargetOf(PC) = r
           /\ before.SP > 0
           /\ Fetched \in PopInstrs
           /\ TargetOf(Fetched) = r)
          => (RegValue(r)' = before[r] /\ SP' = before.SP)]_vars

C5_Witness ==
    /\ Executed({"POPA"})
    /\ before.PC = "PUSHA"
    /\ before.SP = 254
    /\ before.A = 127
    /\ A = 127
    /\ SP = 255

(***************************************************************************)
(* C6.  A pop dispatched with SP = 255 writes 0 to its register and leaves *)
(* SP at 255 and memory unchanged; a push dispatched with SP = 0 leaves    *)
(* memory and SP unchanged.                                                *)
(***************************************************************************)
C6_StackBoundary ==
    [][/\ \A r \in Regs :
            (Fetched \in PopInstrs /\ TargetOf(Fetched) = r /\ SP = 255)
                => (RegValue(r)' = 0 /\ SP' = 255 /\ mem' = mem)
       /\ (Fetched \in PushInstrs /\ SP = 0)
            => (SP' = 0 /\ mem' = mem)]_vars

C6_Witness ==
    /\ Executed(PushInstrs)
    /\ before.SP = 0
    /\ before.PC \in PushInstrs
    /\ before.arg # 0
    /\ SP = 0
    /\ mem[1] # before.arg

(***************************************************************************)
(* C7.  A push of value v dispatched with SP > 0 leaves SP one lower, v in *)
(* memory[SP + 1] for the new SP, and all other cells and the four         *)
(* registers unchanged.                                                    *)
(***************************************************************************)
C7_PushEffect ==
    [][(/\ Fetched \in PushInstrs
        /\ SP > 0
        /\ Fetched = "PUSHi" => HasOperand)
       => LET v == IF Fetched = "PUSHi" THEN Operand
                   ELSE RegValue(TargetOf(Fetched))
          IN  /\ SP' = SP - 1
              /\ mem'[SP' + 1] = v
              /\ \A i \in 0..255 : i # SP' + 1 => mem'[i] = mem[i]
              /\ UNCHANGED <<A, B, X, Y>>]_vars

C7_Witness ==
    /\ Executed({"PUSHi"})
    /\ before.SP = 255
    /\ before.arg = 255
    /\ SP = 254
    /\ mem[255] = 255

(***************************************************************************)
(* C8.  SP is within 0..255 in every state, and every index push and pop   *)
(* have used on memory is within 0..255.                                   *)
(***************************************************************************)
C8_SPInBounds ==
    /\ SP \in 0..255
    /\ access \subseteq 0..255

C8_Witness ==
    /\ Executed(PushInstrs)
    /\ before.SP = 1
    /\ SP = 0
    /\ access = {1}

(***************************************************************************)
(* C9.  When the fetched opcode is HALT or one of BRZ, BRN, BRO, SETA,     *)
(* SETB, SETX, SETY, the step halts the machine, leaves registers, SP, CC  *)
(* and memory as they were and takes that one element from the stream;    *)
(* and once HALTED nothing changes any more.                               *)
(***************************************************************************)
C9_HaltingDispatch ==
    [][/\ Fetched \in OtherInstrs \cup {"HALT"}
            => /\ state' = "HALTED"
               /\ UNCHANGED <<A, B, X, Y, SP, CC, mem>>
               /\ program' = Rest(program)
       /\ state = "HALTED" => UNCHANGED vars]_vars

C9_Witness ==
    /\ state = "HALTED"
    /\ PC = "SETA"
    /\ program # <<>>
    /\ Top(program).tag = "Left"
    /\ before.A = A

(***************************************************************************)
(* C10.  For every stream, execute eventually reaches HALTED.              *)
(***************************************************************************)
C10_Termination == <>(state = "HALTED")

(***************************************************************************)
(* C11.  Whenever an add, subtract, push or pop that targets register r    *)
(* has executed, the other three registers are as they were before it.     *)
(***************************************************************************)
C11_Isolation ==
    (/\ Executed(AddInstrs \cup SubInstrs \cup PushInstrs \cup PopInstrs)
     /\ TargetOf(PC) \in Regs)
    => \A q \in Regs \ {TargetOf(PC)} : RegValue(q) = before[q]

C11_Witness ==
    /\ Executed({"ADDX"})
    /\ before.X = 0
    /\ X = 255
    /\ before.A = 1
    /\ A = 1

(***************************************************************************)
(* C12.  The stream is consumed back to front: each loop iteration         *)
(* dispatches the last element of the stream, an ADDr, SUBr or PUSHi at    *)
(* index n takes the element at index n - 1 as its operand, and what is    *)
(* left is the stream before those elements.  With [10, SUBr] left after   *)
(* ADDr has added 42 to r = 0, r is 42 and the next step leaves r = 32.    *)
(***************************************************************************)
C12_ReverseOrder ==
    [][(state = "RUNNING" /\ program # <<>>) =>
          LET n == Len(program)
              last == program[n]
              takes == /\ last.tag = "Right"
                       /\ last.val \in AddInstrs \cup SubInstrs \cup {"PUSHi"}
                       /\ n >= 2
          IN  /\ last.tag = "Right" => PC' = last.val
              /\ takes =>
                    /\ before'.tag = program[n - 1].tag
                    /\ before'.arg = IF program[n - 1].tag = "Left"
                                     THEN program[n - 1].val ELSE 0
                    /\ program' = SubSeq(program, 1, n - 2)
              /\ ~takes => program' = SubSeq(program, 1, n - 1)
              /\ \A r \in Regs :
                    (/\ n = 2
                     /\ program[1] = Left(10)
                     /\ last.tag = "Right"
                     /\ last.val \in SubInstrs
                     /\ TargetOf(last.val) = r
                     /\ PC \in AddInstrs
                     /\ TargetOf(PC) = r
                     /\ before[r] = 0
                     /\ before.arg = 42)
                    => (RegValue(r) = 42 /\ RegValue(r)' = 32)]_vars

C12_Witness ==
    /\ Executed({"SUBA"})
    /\ before.PC = "ADDA"
    /\ before.A = 42
    /\ before.arg = 10
    /\ A = 32
    /\ program = <<>>

(***************************************************************************)
(* C13.  When ADDr, SUBr or PUSHi takes as its operand an element that is  *)
(* an opcode, the handler works with the operand 0 (an add or subtract     *)
(* leaves the registers as they are and sets CC by the register value, a   *)
(* push stores 0), that opcode is consumed without being dispatched, and   *)
(* the machine stays RUNNING on the stream before the two elements.        *)
(***************************************************************************)
C13_DecodeMismatch ==
    [][(/\ Fetched \in AddInstrs \cup SubInstrs \cup {"PUSHi"}
        /\ HasOperand
        /\ program[Len(program) - 1].tag = "Right")
       => /\ before'.arg = 0
          /\ before'.tag = "Right"
          /\ PC' = Fetched
          /\ state' = "RUNNING"
          /\ program' = SubSeq(program, 1, Len(program) - 2)
          /\ UNCHANGED <<A, B, X, Y>>
          /\ Fetched \in AddInstrs \cup SubInstrs
                => /\ CC' = IF RegValue(TargetOf(Fetched)) = 0
                            THEN "ZERO" ELSE "DEFAULT"
                   /\ UNCHANGED <<SP, mem>>
          /\ (Fetched = "PUSHi" /\ SP > 0)
                => /\ SP' = SP - 1
                   /\ mem' = [mem EXCEPT ![SP] = 0]]_vars

C13_Witness ==
    /\ Executed({"ADDA"})
    /\ before.tag = "Right"
    /\ before.arg = 0
    /\ before.A = 0
    /\ A = 0
    /\ CC = "ZERO"
    /\ program # <<>>

(***************************************************************************)
(* C14.  When the element the loop fetches is a raw operand, the step      *)
(* leaves the registers, SP, CC, PC and memory unchanged, the machine      *)
(* RUNNING, and the stream shorter by that one element.                    *)
(***************************************************************************)
C14_StrayOperand ==
    [][(Fetching /\ program[Len(program)].tag = "Left")
       => /\ UNCHANGED <<A, B, X, Y, SP, CC, PC, mem>>
          /\ state' = "RUNNING"
          /\ program' = SubSeq(program, 1, Len(program) - 1)]_vars

C14_Witness ==
    /\ state = "RUNNING"
    /\ before.strays = 1
    /\ PC = "ADDA"
    /\ A = 1
    /\ CC = "DEFAULT"

(***************************************************************************)
(* C15.  CC is never NEGATIVE or CARRY; a step that does not dispatch an   *)
(* ADDr or SUBr (a push, a pop, HALT, an unimplemented opcode, a discarded *)
(* operand, the end of the stream) leaves CC unchanged, and a step that    *)
(* executes an ADDr or SUBr leaves CC one of OVERFLOW, ZERO and DEFAULT.   *)
(***************************************************************************)
C15_CCByArithmetic ==
    /\ CC \notin {"NEGATIVE", "CARRY"}
    /\ [][/\ Fetched \notin AddInstrs \cup SubInstrs => CC' = CC
          /\ (Fetched \in AddInstrs \cup SubInstrs /\ HasOperand)
                => CC' \in {"OVERFLOW", "ZERO", "DEFAULT"}
          /\ CC' \notin {"NEGATIVE", "CARRY"}]_vars

C15_Witness ==
    /\ Executed(PushInstrs)
    /\ before.CC = "OVERFLOW"
    /\ CC = "OVERFLOW"

(***************************************************************************)
(* C16.  PC is none before the first fetch, is the fetched opcode after a  *)
(* step that leaves the machine RUNNING, and is none once the machine is   *)
(* HALTED, whichever way it halted.                                        *)
(***************************************************************************)
C16_PCLifecycle ==
    /\ PC = "None"
    /\ [][/\ (Fetched # "None" /\ state' = "RUNNING") => PC' = Fetched
          /\ state' = "HALTED" => PC' = "None"]_vars

(***************************************************************************)
(* C17.  The machine as new returns it, before the loop has taken any      *)
(* element: A = B = X = Y = 0, SP = 255, CC = DEFAULT, PC = none, all 256  *)
(* memory cells are 0 and the stream is the vector that was given to new,  *)
(* element for element.                                                    *)
(***************************************************************************)
\* no opcode has been fetched and no operand discarded
Fresh == state = "RUNNING" /\ PC = "None" /\ before.strays = 0

C17_Construction ==
    Fresh =>
        /\ A = 0
        /\ B = 0
        /\ X = 0
        /\ Y = 0
        /\ SP = 255
        /\ CC = "DEFAULT"
        /\ PC = "None"
        /\ DOMAIN mem = 0..255
        /\ \A i \in 0..255 : mem[i] = 0
        /\ Len(program) = Len(given)
        /\ \A i \in 1..Len(given) : program[i] = given[i]

C17_Witness ==
    /\ Fresh
    /\ given = <<Left(10), Right("SUBA"), Left(42), Right("ADDA")>>
    /\ program = given
    /\ SP = 255

(***************************************************************************)
(* C18.  The stack is last in, first out: the values pushed and not yet    *)
(* popped lie in memory[SP + 1 .. 255], the oldest at 255; a push with     *)
(* room adds its value as the newest; a pop on a stack that holds values   *)
(* writes the newest to its register, removes it and raises SP by one; no  *)
(* pop changes memory.  So k pushes from SP = 255 followed by k pops give  *)
(* the values back in reverse order and leave SP = 255.                    *)
(***************************************************************************)
\* shadow is what memory holds above SP
Held ==
    /\ Len(shadow) = 255 - SP
    /\ \A i \in 1..Len(shadow) : mem[256 - i] = shadow[i]

C18_Lifo ==
    /\ Held
    /\ [][/\ Held'
          /\ \A r \in Regs :
                (Fetched \in PopInstrs /\ TargetOf(Fetched) = r)
                => /\ mem' = mem
                   /\ shadow # <<>>
                        => /\ RegValue(r)' = shadow[Len(shadow)]
                           /\ shadow' = SubSeq(shadow, 1, Len(shadow) - 1)
                           /\ SP' = SP + 1
          /\ (Fetched \in PushInstrs /\ SP > 0 /\ (Fetched = "PUSHi" => HasOperand))
                => shadow' = Append(shadow, IF Fetched = "PUSHi" THEN Operand
                                            ELSE RegValue(TargetOf(Fetched)))]_vars

C18_Witness ==
    /\ Executed({"POPA"})
    /\ program = <<>>
    /\ before.SP = 254
    /\ SP = 255
    /\ shadow = <<>>
    /\ A = 1
    /\ mem[255] = 1
    /\ mem[1] = 255

(***************************************************************************)
(* C19.  The stack holds at most 255 values: cell 0 of memory is never     *)
(* accessed and keeps its initial 0, never more than 255 values are held,  *)
(* and a push is dropped exactly when SP was 0, that is when 255 values    *)
(* are held already.                                                       *)
(***************************************************************************)
C19_Capacity ==
    /\ mem[0] = 0
    /\ 0 \notin access
    /\ Len(shadow) <= 255
    /\ Executed(PushInstrs) =>
          /\ SP = before.SP <=> before.SP = 0
          /\ SP = before.SP => Len(shadow) = 255
          /\ SP # before.SP => /\ SP = before.SP - 1
                               /\ Len(shadow) = 255 - SP

C19_Witness ==
    /\ Executed(PushInstrs)
    /\ before.PC \in PushInstrs
    /\ before.SP = 0
    /\ SP = 0
    /\ Len(shadow) = 255
    /\ shadow[255] = mem[1]
    /\ mem[0] = 0

(***************************************************************************)
(* C20.  No byte arithmetic wraps.  The exact values of the byte           *)
(* expressions handle_add and handle_sub evaluate, in the order the code   *)
(* evaluates them, all lie in 0..255; every register is in 0..255 in every *)
(* reachable state; after an accepted add or subtract the register is the  *)
(* exact sum or difference.                                                *)
(***************************************************************************)
\* 255 - reg_value always; reg_value + arg only when the guard let it through
AddExprs(reg_value, arg) ==
    {U8Max - reg_value}
        \cup (IF U8Max - reg_value < arg THEN {} ELSE {reg_value + arg})

\* reg_value - arg only when the guard let it through
SubExprs(reg_value, arg) ==
    IF reg_value < arg THEN {} ELSE {reg_value - arg}

C20_NoWrap ==
    /\ \A r \in Regs : RegValue(r) \in 0..255
    /\ Executed(AddInstrs) =>
          LET r == TargetOf(PC)
              reg == before[r]
              arg == before.arg
          IN  /\ AddExprs(reg, arg) \subseteq 0..255
              /\ CC # "OVERFLOW" => RegValue(r) = reg + arg
    /\ Executed(SubInstrs) =>
          LET r == TargetOf(PC)
              reg == before[r]
              arg == before.arg
          IN  /\ SubExprs(reg, arg) \subseteq 0..255
              /\ CC # "OVERFLOW" => RegValue(r) = reg - arg

C20_Witness ==
    /\ Executed({"ADDA"})
    /\ before.A = 254
    /\ before.arg = 1
    /\ AddExprs(before.A, before.arg) = {1, 255}
    /\ A = 255
    /\ CC = "DEFAULT"

====
